---- MODULE Spec2Model ----
(***************************************************************************)
(* A model of auction-scraper.js: the startup credential check, the load   *)
(* of the keys already in the sheet, the pagination walk of every          *)
(* configured site, the de-duplication of the rows found and the single    *)
(* batch append (Spec).  A second specification, SpecExtract, covers the   *)
(* per-element extraction of scrapePage: trim and category inference.      *)
(*                                                                         *)
(* Strings of the run are TLA+ strings (concatenated with \o, as the code  *)
(* concatenates them with +); the texts of the extraction are sequences of *)
(* one-character strings, so that trim, toLowerCase and includes can be    *)
(* computed character by character.  A JavaScript value that may be        *)
(* undefined/null is the empty sequence None or the one-element sequence   *)
(* Some(v).                                                                *)
(***************************************************************************)
EXTENDS Integers, Sequences, FiniteSets, TLC

\* ------------------------------------------------------------------ bounds
\* Sites in SITES, the largest configured page limit, data rows already in
\* the sheet.
MaxSites == 2
MaxLimit == 2
MaxRows == 1

\* Pages one walk may fetch in the model: one more than any configured limit,
\* so that a walk that overruns its limit is seen to.
MaxPages == MaxLimit + 1

\* ------------------------------------------------------------ JS values
None == <<>>
Some(x) == <<x>>

\* Truthiness of an optional string: undefined and "" are falsy.
TruthyStr(o) == o # None /\ o[1] # ""

\* A test for undefined alone, which takes 0 for a number like any other.
DefinedNum(o) == o # None

\* Truthiness of an optional number: undefined and 0 are falsy.
TruthyNum(o) == o # None /\ o[1] # 0

BoundedSeq(S, n) == UNION {[1..k -> S] : k \in 0..n}

\* ------------------------------------------------------------ environment
\* process.env.SHEET_ID
SheetIds == {None, Some(""), Some("sheet-1")}

\* process.env.GOOGLE_SERVICE_ACCOUNT_JSON; "{" is text JSON.parse rejects.
Credentials == "{\"type\":\"service_account\"}"

ServiceAccountJsons == {None, Some(""), Some("{"), Some(Credentials)}

Envs == [SHEET_ID : SheetIds, SERVICE_ACCOUNT_JSON : ServiceAccountJsons]

\* The startup check with its second operand left out.
MissingSheetIdOnly(e) == ~TruthyStr(e.SHEET_ID)

\* !SHEET_ID || !SERVICE_ACCOUNT_JSON
MissingCredentials(e) == ~TruthyStr(e.SHEET_ID) \/ ~TruthyStr(e.SERVICE_ACCOUNT_JSON)

\* Whether JSON.parse accepts the credential blob.
ParsesAsJson(e) == e.SERVICE_ACCOUNT_JSON = Some(Credentials)

\* ------------------------------------------------------------------ SITES
RequiredSelectors == {"item", "title", "date", "location", "category", "description", "link"}

SiteUrl == "https://example.com/auctions"

\* The pagination descriptors a site may carry: absent altogether, or with
\* next and limit each present or omitted; limit 0 is a configured value.
Paginations ==
  {None}
    \cup {Some([next |-> n, limit |-> l]) :
            n \in {None, Some(".next-page a")},
            l \in {None, Some(0), Some(1), Some(MaxLimit)}}

\* The descriptors: every pagination with all selectors present, and the
\* descriptor of the source with one required selector left out.
SiteDescriptors ==
  {[name |-> "Example Auctions", url |-> SiteUrl, selectors |-> RequiredSelectors,
    pagination |-> p] : p \in Paginations}
    \cup {[name |-> "Example Auctions", url |-> SiteUrl,
           selectors |-> RequiredSelectors \ {"description"},
           pagination |-> Some([next |-> Some(".next-page a"), limit |-> Some(MaxLimit)])]}

\* ------------------------------------------------------------------- rows
\* A row: <<title, date, location, category, description, link>>.
Row(title, date, description, link) == <<title, date, "Leeds", "General", description, link>>

\* The rows the sites may list.  The first two are one auction (same title
\* and link) with different dates; the third is another auction, whose title
\* holds the separator.  Both links are values new URL(...).href can take: a
\* "|" in a path is kept as it is.
Listings ==
  {Row("Lot", "1 May", "", "https://example.com/a|https://example.com/b"),
   Row("Lot", "2 May", "", "https://example.com/a|https://example.com/b"),
   Row("Lot|https://example.com/a", "1 May", "Clock", "https://example.com/b")}

\* What one page may hold: nothing, or one listing.
PageItems == {<<>>} \cup {<<r>> : r \in Listings}

\* href of the element the next selector matches: no match, empty, a link.
Hrefs == {None, Some(""), Some("?page=2")}

Header == <<"title", "date", "location", "category", "description", "link">>

\* Data rows of the sheet: the first auction as an earlier run recorded it,
\* and a row whose trailing cells are empty (the API leaves them out).
StoredRows ==
  {Row("Lot", "30 April", "", "https://example.com/a|https://example.com/b"),
   <<"Lot">>}

\* The sheet as the values API returns it: no values at all, or the header
\* row followed by data rows.
Stores == {None} \cup {<<Header>> \o s : s \in BoundedSeq(StoredRows, MaxRows)}

VARIABLES
  env,          \* process.env
  numSites,     \* SITES.length
  site,         \* SITES[siteIdx - 1], read when the for loop reaches it
  sheet,        \* the rows of Sheet1!A:F
  pc,           \* where the run is
  exitCode,     \* process.exit's argument, None while running
  thrown,       \* the error that ended the run, None otherwise
  existing,     \* main: the Set of keys
  newRows,      \* main: the rows queued for the append
  siteIdx,      \* main: index into SITES of the for loop
  items,        \* main: what scrapeSite returned
  pageUrl,      \* scrapeSite: pageUrl
  page,         \* scrapeSite: page
  allItems,     \* scrapeSite: allItems
  served,       \* the items of each page the current site served so far
  offeredNext,  \* whether the page fetched last held a next link
  fetches,      \* axios.get calls of the current walk
  calls,        \* calls made to the Google client: getClient, get, append
  fetchedAny,   \* whether axios.get was called in this run
  appendCalls,  \* the argument of every values.append call
  failedAt,     \* the page of the current walk's console.error line
  summary,      \* the closing console line
  firstSeen,    \* the rows that were the first of their (title, link) pair
  dropped,      \* the rows the dedup loop passed over
  elem,         \* SpecExtract: the texts cheerio finds in one element
  extracted     \* SpecExtract: the row scrapePage pushes for it

runVars ==
  <<env, numSites, site, sheet, pc, exitCode, thrown, existing, newRows, siteIdx,
    items, pageUrl, page, allItems, served, offeredNext, fetches, calls, fetchedAny,
    appendCalls, failedAt, summary, firstSeen, dropped>>

extractVars == <<elem, extracted>>

vars == <<runVars, extractVars>>

\* ------------------------------------------------------- getExistingEntries
\* (r[i] || "")
Cell(r, i) == IF i <= Len(r) /\ r[i] # "" THEN r[i] ELSE ""

\* title + "|" + link
DedupKey(title, link) == title \o "|" \o link

\* res.data.values || []
Values(s) == IF s = None THEN <<>> ELSE s

\* rows.slice(1)
DataRows(rows) == IF Len(rows) <= 1 THEN <<>> ELSE SubSeq(rows, 2, Len(rows))

ExistingEntries(s) ==
  LET rows == DataRows(Values(s))
  IN  {DedupKey(Cell(rows[i], 1), Cell(rows[i], 6)) : i \in 1..Len(rows)}

\* ---------------------------------------------------------------- the walk
\* A property the descriptor does not have reads as undefined.
NoSuchProperty(d) == None

\* site.pagination.limit
Limit(d) == d.pagination[1].limit

\* (!limit || page <= limit)
WithinLimit(limit, p) == IF TruthyNum(limit) THEN p <= limit[1] ELSE TRUE

\* (!limit || page < limit)
BelowLimit(limit, p) == IF TruthyNum(limit) THEN p < limit[1] ELSE TRUE

\* The while condition of scrapeSite, once site.pagination is known to exist.
LoopContinues(d, url, p) == url # None /\ WithinLimit(Limit(d), p)

\* Evaluating the while condition throws: pageUrl is truthy and
\* d.pagination is undefined.
LoopThrows(d, url) == url # None /\ d.pagination = None

\* new URL(next, d.url).href, left uninterpreted.
Resolve(href, base) == Some([base |-> base, href |-> href])

\* nextPage of scrapePage.
NextPage(d, href, p) ==
  IF d.pagination # None /\ TruthyStr(d.pagination[1].next)
    THEN IF TruthyStr(href) /\ BelowLimit(Limit(d), p)
           THEN Resolve(href[1], d.url)
           ELSE None
    ELSE None

\* The rows scrapePage extracts from a page that lists `rows`: a field whose
\* selector the descriptor lacks finds no element, and its text is "".
Extracted(d, rows) ==
  [i \in 1..Len(rows) |->
     IF "description" \in d.selectors THEN rows[i] ELSE [rows[i] EXCEPT ![5] = ""]]

\* A catch that returns nothing.
ReturnedNothing(acc) == <<>>

\* What scrapeSite returns after the catch: break, then return allItems.
ReturnedAfterError(acc) == acc

\* ------------------------------------------------------------------- dedup
\* !existing.has(key)
IsNew(key, ex) == key \notin ex

\* existing.add(key), dropped
ForgetKey(ex, key) == ex

\* existing.add(key)
AddKey(ex, key) == ex \cup {key}

RECURSIVE DedupRows(_, _, _, _)
\* The inner for loop of main over the rows of one site; skipped collects
\* the rows the if passes over.
DedupRows(rows, ex, new, skipped) ==
  IF rows = <<>>
    THEN [existing |-> ex, newRows |-> new, dropped |-> skipped]
    ELSE LET row == Head(rows)
             key == DedupKey(row[1], row[6])
         IN  IF IsNew(key, ex)
               THEN DedupRows(Tail(rows), AddKey(ex, key), Append(new, row), skipped)
               ELSE DedupRows(Tail(rows), ex, new, skipped \cup {row})

\* (title, link) of a row.
Pair(row) == <<Cell(row, 1), Cell(row, 6)>>

RECURSIVE FirstOccurrences(_, _)
\* The rows of `rows`, in order, whose pair no earlier row and no row of
\* `seen` has, added to `seen`.
FirstOccurrences(rows, seen) ==
  IF rows = <<>>
    THEN seen
    ELSE LET row == Head(rows)
         IN  IF \E r \in seen : Pair(r) = Pair(row)
               THEN FirstOccurrences(Tail(rows), seen)
               ELSE FirstOccurrences(Tail(rows), seen \cup {row})

\* ------------------------------------------------------------------ actions
Init ==
  /\ env \in Envs
  /\ numSites \in 1..MaxSites
  /\ site = None
  /\ sheet \in Stores
  /\ pc = "start"
  /\ exitCode = None
  /\ thrown = None
  /\ existing = {}
  /\ newRows = <<>>
  /\ siteIdx = 1
  /\ items = <<>>
  /\ pageUrl = None
  /\ page = 1
  /\ allItems = <<>>
  /\ served = <<>>
  /\ offeredNext = FALSE
  /\ fetches = 0
  /\ calls = [getClient |-> 0, get |-> 0, append |-> 0]
  /\ fetchedAny = FALSE
  /\ appendCalls = <<>>
  /\ failedAt = None
  /\ summary = None
  /\ firstSeen = {}
  /\ dropped = {}
  /\ elem = None
  /\ extracted = None

\* Lines 6-17: the credential check, then JSON.parse of the blob.
Startup ==
  /\ pc = "start"
  /\ IF MissingCredentials(env)
       THEN pc' = "exited" /\ exitCode' = Some(1) /\ thrown' = None
       ELSE IF ~ParsesAsJson(env)
              THEN pc' = "crashed" /\ exitCode' = None /\ thrown' = Some("SyntaxError")
              ELSE pc' = "main" /\ UNCHANGED <<exitCode, thrown>>
  /\ UNCHANGED <<env, numSites, site, sheet, existing, newRows, siteIdx, items, pageUrl, page,
                 allItems, served, offeredNext, fetches, calls, fetchedAny, appendCalls,
                 failedAt, summary, firstSeen, dropped, extractVars>>

\* getExistingEntries returns the key set.
GetExistingEntries ==
  /\ pc = "main"
  /\ calls' = [calls EXCEPT !.getClient = @ + 1, !.get = @ + 1]
  /\ existing' = ExistingEntries(sheet)
  /\ newRows' = <<>>
  /\ siteIdx' = 1
  /\ pc' = "sites"
  /\ UNCHANGED <<env, numSites, site, sheet, exitCode, thrown, items, pageUrl, page, allItems,
                 served, offeredNext, fetches, fetchedAny, appendCalls, failedAt, summary,
                 firstSeen, dropped, extractVars>>

\* A load failure that is caught: the run goes on with no keys.
LoadFailureSwallowed ==
  /\ pc = "main"
  /\ calls' = [calls EXCEPT !.getClient = @ + 1, !.get = @ + 1]
  /\ thrown' = Some("getExistingEntries")
  /\ existing' = {}
  /\ pc' = "sites"
  /\ UNCHANGED <<env, numSites, site, sheet, exitCode, newRows, siteIdx, items, pageUrl,
                 page, allItems, served, offeredNext, fetches, fetchedAny, appendCalls,
                 failedAt, summary, firstSeen, dropped, extractVars>>

\* getExistingEntries rejects: getClient fails, or values.get fails.  Nothing
\* in main catches it.
GetExistingEntriesFails ==
  /\ pc = "main"
  /\ \E stage \in {"getClient", "get"} :
       /\ calls' = IF stage = "getClient"
                     THEN [calls EXCEPT !.getClient = @ + 1]
                     ELSE [calls EXCEPT !.getClient = @ + 1, !.get = @ + 1]
  /\ thrown' = Some("getExistingEntries")
  /\ pc' = "crashed"
  /\ UNCHANGED <<env, numSites, site, sheet, exitCode, existing, newRows, siteIdx, items, pageUrl,
                 page, allItems, served, offeredNext, fetches, fetchedAny, appendCalls,
                 failedAt, summary, firstSeen, dropped, extractVars>>

\* main calls scrapeSite for the next site of SITES: lines 102-105.  The
\* descriptor is any of SiteDescriptors; nothing reads it before this point.
ScrapeSiteBegin ==
  /\ pc = "sites"
  /\ siteIdx <= numSites
  /\ \E d \in SiteDescriptors :
       /\ site' = d
       /\ pageUrl' = Some(d.url)
  /\ page' = 1
  /\ allItems' = <<>>
  /\ served' = <<>>
  /\ offeredNext' = FALSE
  /\ fetches' = 0
  /\ failedAt' = None
  /\ pc' = "walk"
  /\ UNCHANGED <<env, numSites, sheet, exitCode, thrown, existing, newRows, siteIdx,
                 items, calls, fetchedAny, appendCalls, summary, firstSeen, dropped, extractVars>>

\* The while condition throws a TypeError, outside the try: main rejects.
ScrapeSiteThrows ==
  /\ pc = "walk"
  /\ LoopThrows(site, pageUrl)
  /\ thrown' = Some("TypeError")
  /\ pc' = "crashed"
  /\ UNCHANGED <<env, numSites, site, sheet, exitCode, existing, newRows, siteIdx, items, pageUrl,
                 page, allItems, served, offeredNext, fetches, calls, fetchedAny, appendCalls,
                 failedAt, summary, firstSeen, dropped, extractVars>>

\* One iteration of the loop in which scrapePage returns.
ScrapePageOk ==
  /\ pc = "walk"
  /\ ~LoopThrows(site, pageUrl)
  /\ LoopContinues(site, pageUrl, page)
  /\ fetches < MaxPages
  /\ \E found \in PageItems, href \in Hrefs :
       /\ allItems' = allItems \o Extracted(site, found)
       /\ served' = Append(served, Extracted(site, found))
       /\ offeredNext' = TruthyStr(href)
       /\ pageUrl' = NextPage(site, href, page)
  /\ page' = page + 1
  /\ fetches' = fetches + 1
  /\ fetchedAny' = TRUE
  /\ UNCHANGED <<env, numSites, site, sheet, pc, exitCode, thrown, existing, newRows, siteIdx,
                 items, calls, appendCalls, failedAt, summary, firstSeen, dropped, extractVars>>

\* One iteration in which axios.get or the extraction throws: the catch logs
\* and breaks, and scrapeSite returns allItems.
ScrapePageFails ==
  /\ pc = "walk"
  /\ ~LoopThrows(site, pageUrl)
  /\ LoopContinues(site, pageUrl, page)
  /\ fetches < MaxPages
  /\ fetches' = fetches + 1
  /\ fetchedAny' = TRUE
  /\ failedAt' = Some(page)
  /\ items' = ReturnedAfterError(allItems)
  /\ pc' = "dedup"
  /\ UNCHANGED <<env, numSites, site, sheet, exitCode, thrown, existing, newRows, siteIdx, pageUrl,
                 page, allItems, served, offeredNext, calls, appendCalls, summary, firstSeen, dropped,
                 extractVars>>

\* The while condition is false: scrapeSite returns allItems.
ScrapeSiteReturn ==
  /\ pc = "walk"
  /\ ~LoopThrows(site, pageUrl)
  /\ ~LoopContinues(site, pageUrl, page)
  /\ items' = allItems
  /\ pc' = "dedup"
  /\ UNCHANGED <<env, numSites, site, sheet, exitCode, thrown, existing, newRows, siteIdx, pageUrl,
                 page, allItems, served, offeredNext, fetches, calls, fetchedAny, appendCalls,
                 failedAt, summary, firstSeen, dropped, extractVars>>

\* Lines 129-135 for the rows of the site just walked, then the next site.
\* What scrapeSite held is out of scope from here on.
DedupSite ==
  /\ pc = "dedup"
  /\ LET r == DedupRows(items, existing, newRows, dropped)
     IN  existing' = r.existing /\ newRows' = r.newRows /\ dropped' = r.dropped
  /\ firstSeen' = FirstOccurrences(items, firstSeen)
  /\ siteIdx' = siteIdx + 1
  /\ site' = None
  /\ items' = <<>>
  /\ pageUrl' = None
  /\ page' = 1
  /\ allItems' = <<>>
  /\ served' = <<>>
  /\ offeredNext' = FALSE
  /\ fetches' = 0
  /\ failedAt' = None
  /\ pc' = "sites"
  /\ UNCHANGED <<env, numSites, sheet, exitCode, thrown, calls, fetchedAny, appendCalls,
                 summary, extractVars>>

\* The check of line 138 left out.
AlwaysAppend(rows) == TRUE

\* newRows.length > 0
ShouldAppend(rows) == Len(rows) > 0

\* Lines 138-139: appendToSheet with the queued rows.
AppendToSheet ==
  /\ pc = "sites"
  /\ siteIdx > numSites
  /\ ShouldAppend(newRows)
  /\ calls' = [calls EXCEPT !.getClient = @ + 1, !.append = @ + 1]
  /\ appendCalls' = Append(appendCalls, newRows)
  /\ summary' = Some("Added")
  /\ pc' = "done"
  /\ UNCHANGED <<env, numSites, site, sheet, exitCode, thrown, existing, newRows, siteIdx, items,
                 pageUrl, page, allItems, served, offeredNext, fetches, fetchedAny, failedAt,
                 firstSeen, dropped, extractVars>>

\* appendToSheet rejects: getClient fails before the call, or the call fails.
AppendToSheetFails ==
  /\ pc = "sites"
  /\ siteIdx > numSites
  /\ ShouldAppend(newRows)
  /\ \E stage \in {"getClient", "append"} :
       /\ calls' = IF stage = "getClient"
                     THEN [calls EXCEPT !.getClient = @ + 1]
                     ELSE [calls EXCEPT !.getClient = @ + 1, !.append = @ + 1]
       /\ appendCalls' = IF stage = "getClient" THEN appendCalls
                                                ELSE Append(appendCalls, newRows)
  /\ thrown' = Some("appendToSheet")
  /\ pc' = "crashed"
  /\ UNCHANGED <<env, numSites, site, sheet, exitCode, existing, newRows, siteIdx, items, pageUrl,
                 page, allItems, served, offeredNext, fetches, fetchedAny, failedAt, summary,
                 firstSeen, dropped, extractVars>>

\* Lines 140-141: nothing queued.
NoNewAuctions ==
  /\ pc = "sites"
  /\ siteIdx > numSites
  /\ ~ShouldAppend(newRows)
  /\ summary' = Some("No new auctions found.")
  /\ pc' = "done"
  /\ UNCHANGED <<env, numSites, site, sheet, exitCode, thrown, existing, newRows, siteIdx, items,
                 pageUrl, page, allItems, served, offeredNext, fetches, calls, fetchedAny,
                 appendCalls, failedAt, firstSeen, dropped, extractVars>>

\* -------------------------------------------------------------- extraction
\* Texts are sequences of one-character strings.
Upper == <<"A", "B", "C", "D", "E", "F", "G", "H", "I", "J", "K", "L", "M",
           "N", "O", "P", "Q", "R", "S", "T", "U", "V", "W", "X", "Y", "Z">>

Lower == <<"a", "b", "c", "d", "e", "f", "g", "h", "i", "j", "k", "l", "m",
           "n", "o", "p", "q", "r", "s", "t", "u", "v", "w", "x", "y", "z">>

\* String.prototype.toLowerCase, on the letters A-Z.
ToLowerCase(t) ==
  [i \in 1..Len(t) |->
     IF \E k \in 1..Len(Upper) : Upper[k] = t[i]
       THEN Lower[CHOOSE k \in 1..Len(Upper) : Upper[k] = t[i]]
       ELSE t[i]]

\* String.prototype.includes
Includes(t, w) == \E i \in 1..(Len(t) - Len(w) + 1) : SubSeq(t, i, i + Len(w) - 1) = w

WhiteSpace == {" ", "\t", "\n"}

RECURSIVE TrimStart(_)
TrimStart(t) == IF t # <<>> /\ Head(t) \in WhiteSpace THEN TrimStart(Tail(t)) ELSE t

RECURSIVE TrimEnd(_)
TrimEnd(t) ==
  IF t # <<>> /\ t[Len(t)] \in WhiteSpace THEN TrimEnd(SubSeq(t, 1, Len(t) - 1)) ELSE t

\* String.prototype.trim
Trim(t) == TrimEnd(TrimStart(t))

\* The keywords and labels of guessCategory.
KwProperty == <<"p", "r", "o", "p", "e", "r", "t", "y">>
KwEstate == <<"e", "s", "t", "a", "t", "e">>
KwAntique == <<"a", "n", "t", "i", "q", "u", "e">>
KwCollectible == <<"c", "o", "l", "l", "e", "c", "t", "i", "b", "l", "e">>
KwJewel == <<"j", "e", "w", "e", "l">>
KwWatch == <<"w", "a", "t", "c", "h">>
KwCar == <<"c", "a", "r">>
KwVehicle == <<"v", "e", "h", "i", "c", "l", "e">>
KwFarm == <<"f", "a", "r", "m">>
KwTractor == <<"t", "r", "a", "c", "t", "o", "r">>
KwArt == <<"a", "r", "t">>
KwPainting == <<"p", "a", "i", "n", "t", "i", "n", "g">>

Property == <<"P", "r", "o", "p", "e", "r", "t", "y">>
Antiques == <<"A", "n", "t", "i", "q", "u", "e", "s">>
Jewellery == <<"J", "e", "w", "e", "l", "l", "e", "r", "y">>
Motors == <<"M", "o", "t", "o", "r", "s">>
Agriculture == <<"A", "g", "r", "i", "c", "u", "l", "t", "u", "r", "e">>
Art == <<"A", "r", "t">>
General == <<"G", "e", "n", "e", "r", "a", "l">>

\* `${title} ${location} ${url}`.toLowerCase()
CategoryText(title, location, url) ==
  ToLowerCase(title \o <<" ">> \o location \o <<" ">> \o url)

\* guessCategory with the Motors test moved to the front.
guessCategoryMotorsFirst(title, location, url) ==
  LET text == CategoryText(title, location, url)
  IN  IF Includes(text, KwCar) \/ Includes(text, KwVehicle) THEN Motors
      ELSE IF Includes(text, KwProperty) \/ Includes(text, KwEstate) THEN Property
      ELSE IF Includes(text, KwAntique) \/ Includes(text, KwCollectible) THEN Antiques
      ELSE IF Includes(text, KwJewel) \/ Includes(text, KwWatch) THEN Jewellery
      ELSE IF Includes(text, KwFarm) \/ Includes(text, KwTractor) THEN Agriculture
      ELSE IF Includes(text, KwArt) \/ Includes(text, KwPainting) THEN Art
      ELSE General

guessCategory(title, location, url) ==
  LET text == CategoryText(title, location, url)
  IN  IF Includes(text, KwProperty) \/ Includes(text, KwEstate) THEN Property
      ELSE IF Includes(text, KwAntique) \/ Includes(text, KwCollectible) THEN Antiques
      ELSE IF Includes(text, KwJewel) \/ Includes(text, KwWatch) THEN Jewellery
      ELSE IF Includes(text, KwCar) \/ Includes(text, KwVehicle) THEN Motors
      ELSE IF Includes(text, KwFarm) \/ Includes(text, KwTractor) THEN Agriculture
      ELSE IF Includes(text, KwArt) \/ Includes(text, KwPainting) THEN Art
      ELSE General

\* $(el).find(selector).text(): the text of the match, "" when the selector
\* is missing from the descriptor and nothing is matched.
FieldText(d, el, field) == IF field \in d.selectors THEN el[field] ELSE <<>>

\* The row the each callback of scrapePage pushes for one element.
ItemRow(d, el) ==
  LET title == Trim(FieldText(d, el, "title"))
      date == Trim(FieldText(d, el, "date"))
      location == Trim(FieldText(d, el, "location"))
      found == Trim(FieldText(d, el, "category"))
      category == IF found # <<>> THEN found ELSE guessCategory(title, location, d.url)
      description == Trim(FieldText(d, el, "description"))
      link == IF "link" \in d.selectors /\ TruthyStr(el.href)
                THEN Resolve(el.href[1], d.url)
                ELSE Some(d.url)
  IN  <<title, date, location, category, description, link>>

\* Words a title is made of, the title and the location texts of an element.
MaxWords == 3

Words ==
  {<<"A", "n", "t", "i", "q", "u", "e">>,
   <<"C", "a", "r">>,
   <<"A", "u", "c", "t", "i", "o", "n">>,
   <<"E", "S", "T", "A", "T", "E">>,
   <<"W", "a", "t", "c", "h">>,
   <<"P", "a", "r", "t", "y">>}

RECURSIVE JoinWords(_)
JoinWords(ws) ==
  IF ws = <<>> THEN <<>>
  ELSE IF Len(ws) = 1 THEN ws[1]
  ELSE ws[1] \o <<" ">> \o JoinWords(Tail(ws))

TitleTexts == {JoinWords(ws) : ws \in BoundedSeq(Words, MaxWords)}

LocationTexts == {<<>>, <<"\n", " ", "T", "r", "a", "c", "t", "o", "r", " ", "Y", "a", "r", "d", " ">>}

\* Texts of the category element: none, white space only, a label with and
\* without white space around it.
CategoryTexts ==
  {<<>>, <<" ", "\n">>, <<"C", "l", "o", "c", "k", "s">>,
   <<"\n", " ", "C", "l", "o", "c", "k", "s", " ">>}

\* site.url of the source, and a base URL that holds a keyword.
SiteUrlText ==
  <<"h", "t", "t", "p", "s", ":", "/", "/", "e", "x", "a", "m", "p", "l", "e", ".",
    "c", "o", "m", "/", "a", "u", "c", "t", "i", "o", "n", "s">>

UrlTexts == {SiteUrlText, <<"h", "t", "t", "p", ":", "/", "/", "a", "r", "t", ".", "i", "o">>}

Elements ==
  [title : TitleTexts, date : {<<"1", " ", "M", "a", "y">>}, location : LocationTexts,
   category : CategoryTexts, description : {<<" ", "L", "o", "t", " ", "7">>},
   href : {None, Some("/lot/7")}]

ExtractSites ==
  [name : {"Example Auctions"}, url : UrlTexts,
   selectors : {RequiredSelectors, RequiredSelectors \ {"description"}},
   pagination : {Some([next |-> Some(".next-page a"), limit |-> Some(5)])}]

\* One element of one page of one site, before the callback runs on it.
InitExtract ==
  /\ env = [SHEET_ID |-> Some("sheet-1"), SERVICE_ACCOUNT_JSON |-> Some(Credentials)]
  /\ numSites = 1
  /\ site \in ExtractSites
  /\ sheet = None
  /\ pc = "walk"
  /\ exitCode = None
  /\ thrown = None
  /\ existing = {}
  /\ newRows = <<>>
  /\ siteIdx = 1
  /\ items = <<>>
  /\ pageUrl = None
  /\ page = 1
  /\ allItems = <<>>
  /\ served = <<>>
  /\ offeredNext = FALSE
  /\ fetches = 1
  /\ calls = [getClient |-> 1, get |-> 1, append |-> 0]
  /\ fetchedAny = TRUE
  /\ appendCalls = <<>>
  /\ failedAt = None
  /\ summary = None
  /\ firstSeen = {}
  /\ dropped = {}
  /\ elem \in {Some(e) : e \in Elements}
  /\ extracted = None

\* Lines 78-89 for one element.
ExtractItem ==
  /\ elem # None
  /\ extracted = None
  /\ extracted' = Some(ItemRow(site, elem[1]))
  /\ UNCHANGED <<runVars, elem>>

NextExtract == ExtractItem

SpecExtract == InitExtract /\ [][NextExtract]_vars

Next ==
  \/ Startup
  \/ GetExistingEntries
  \/ GetExistingEntriesFails
  \/ ScrapeSiteBegin
  \/ ScrapeSiteThrows
  \/ ScrapePageOk
  \/ ScrapePageFails
  \/ ScrapeSiteReturn
  \/ DedupSite
  \/ AppendToSheet
  \/ AppendToSheetFails
  \/ NoNewAuctions

Spec == Init /\ [][Next]_vars

\* ------------------------------------------------------------------ claims
Range(q) == {q[i] : i \in 1..Len(q)}

\* The (title, link) pairs of the data rows of the sheet.
HistoryPairs == {Pair(r) : r \in Range(DataRows(Values(sheet)))}

\* C1: the queued rows hold at most one row per (title, link) pair, no row
\* whose pair is that of a data row of the sheet, and each queued row is the
\* first row of the run with its pair, whatever its other fields are.
C1_FirstOccurrenceOnly ==
  /\ \A i, j \in 1..Len(newRows) : Pair(newRows[i]) = Pair(newRows[j]) => i = j
  /\ \A i \in 1..Len(newRows) : Pair(newRows[i]) \notin HistoryPairs
  /\ \A i \in 1..Len(newRows) : newRows[i] \in firstSeen

\* A later row with the pair of a queued row and another date was dropped.
C1_Witness ==
  \E a \in Range(newRows), b \in dropped : Pair(a) = Pair(b) /\ a[2] # b[2]

\* C9: a row is dropped only if an earlier row of the run or a data row of
\* the sheet has its title and its link: the first row of the run with a
\* pair the sheet does not hold is queued, and rows with different pairs
\* have different keys.
C9_OnlySamePairDropped ==
  /\ \A f \in firstSeen : Pair(f) \notin HistoryPairs => f \in Range(newRows)
  /\ \A f, g \in firstSeen :
       Pair(f) # Pair(g) => DedupKey(f[1], f[6]) # DedupKey(g[1], g[6])

RECURSIVE Flatten(_)
\* The lists of a list, one after the other.
Flatten(q) == IF q = <<>> THEN <<>> ELSE Head(q) \o Flatten(Tail(q))

\* A walk is under way or has just returned: site is the descriptor walked.
InWalk == pc \in {"walk", "dedup"}

\* scrapeSite has returned to main.
Returned == pc = "dedup"

\* C2: with a positive limit L a walk fetches at most L pages, and returns
\* after page L even when that page holds a next link; with no limit a walk
\* goes on while the page fetched last holds a next link, and returns only
\* after a page without one or after a failure.
C2_WalkWithinLimit ==
  (InWalk /\ site.pagination # None) =>
    LET limit == site.pagination[1].limit
        next == site.pagination[1].next
    IN  /\ (limit # None /\ limit[1] > 0) => fetches <= limit[1]
        /\ (limit # None /\ limit[1] > 0 /\ Returned /\ failedAt = None /\ next # None
              /\ offeredNext)
             => fetches = limit[1]
        /\ (limit = None /\ next # None /\ fetches > 0 /\ offeredNext /\ pc = "walk")
             => pageUrl # None
        /\ (limit = None /\ next # None /\ Returned /\ failedAt = None)
             => fetches > 0 /\ ~offeredNext

\* A walk with the largest limit returned after that many pages although
\* the last page held a next link.
C2_Witness ==
  /\ Returned
  /\ site.pagination # None
  /\ site.pagination[1].limit = Some(MaxLimit)
  /\ site.pagination[1].next # None
  /\ fetches = MaxLimit
  /\ offeredNext
  /\ failedAt = None

\* scrapeSite has returned through its catch.
ReturnedAfterFailure == Returned /\ failedAt # None

\* C3: when page k fails, scrapeSite returns exactly the rows of pages 1 to
\* k-1, page k is fetched once, nothing is thrown, and main goes on with the
\* dedup of these rows and then with the next site or the append step.
C3_FailureKeepsEarlierPages ==
  /\ [](ReturnedAfterFailure =>
          /\ items = Flatten(served)
          /\ Len(served) = failedAt[1] - 1
          /\ fetches = failedAt[1]
          /\ thrown = None)
  /\ [][ReturnedAfterFailure =>
          /\ pc' = "sites"
          /\ siteIdx' = siteIdx + 1
          /\ thrown' = None
          /\ \A i \in 1..Len(items) : items[i] \in Range(newRows') \cup dropped']_vars

\* Page 2 failed after page 1 gave a row, and another site is still to come.
C3_Witness ==
  /\ ReturnedAfterFailure
  /\ failedAt = Some(2)
  /\ Len(items) = 1
  /\ siteIdx < numSites

\* C4: values.append is called at most once, only after the last site was
\* walked, with all the queued rows; with nothing queued it is never called
\* and the run ends on the no-new-auctions line.
C4_SingleBatchAppend ==
  /\ Len(appendCalls) <= 1
  /\ calls.append = Len(appendCalls)
  /\ appendCalls # <<>> =>
       /\ siteIdx > numSites
       /\ newRows # <<>>
       /\ appendCalls[1] = newRows
  /\ (siteIdx > numSites /\ newRows = <<>>) => appendCalls = <<>>
  /\ (pc = "done" /\ newRows = <<>>) => summary = Some("No new auctions found.")
  /\ (pc = "done" /\ newRows # <<>>) => Len(appendCalls) = 1 /\ summary = Some("Added")

\* A run that found rows, dropped them all, and ended without an append.
C4_Witness ==
  /\ pc = "done"
  /\ newRows = <<>>
  /\ dropped # {}
  /\ appendCalls = <<>>

\* An environment variable is absent or empty.
Absent(v) == v = None \/ v = Some("")

\* C5: with SHEET_ID or GOOGLE_SERVICE_ACCOUNT_JSON absent or empty the
\* process only ever exits with code 1, and makes no network call.
C5_MissingEnvExits ==
  (Absent(env.SHEET_ID) \/ Absent(env.SERVICE_ACCOUNT_JSON)) =>
    /\ pc \in {"start", "exited"}
    /\ pc = "exited" => exitCode = Some(1)
    /\ calls = [getClient |-> 0, get |-> 0, append |-> 0]
    /\ ~fetchedAny
    /\ appendCalls = <<>>

\* The process exited although the sheet id was there: the blob was empty.
C5_Witness ==
  /\ pc = "exited"
  /\ env.SHEET_ID = Some("sheet-1")
  /\ env.SERVICE_ACCOUNT_JSON = Some("")

\* C7: a site whose descriptor lacks a required selector is never fetched
\* and no row is extracted from it: the process fails before.
C7_MissingSelectorFailsFast ==
  (InWalk /\ site.selectors # RequiredSelectors) =>
    /\ fetches = 0
    /\ allItems = <<>>

\* The run is past the await of getExistingEntries.
Loaded == pc \in {"sites", "walk", "dedup", "done"}

\* C8: the keys are loaded once, and never twice; a page is fetched or an
\* append made only after that load succeeded; a failed load ends the run
\* with no page fetched and no append.
C8_LoadBeforeScrape ==
  /\ calls.get <= 1
  /\ Loaded => calls.get = 1
  /\ (fetchedAny \/ appendCalls # <<>>) =>
       /\ calls.get = 1
       /\ thrown # Some("getExistingEntries")
  /\ thrown = Some("getExistingEntries") =>
       /\ pc = "crashed"
       /\ ~fetchedAny
       /\ appendCalls = <<>>

\* values.get was called and failed.
C8_Witness ==
  /\ pc = "crashed"
  /\ thrown = Some("getExistingEntries")
  /\ calls.get = 1

\* C10: a site with limit 0 is walked as one without a limit: its start
\* page is fetched, and the walk goes on while the page fetched last holds a
\* next link; a descriptor that omits limit or next is walked without a
\* TypeError, and one that omits next is walked for one page.
C10_ZeroLimitUnbounded ==
  /\ (InWalk /\ site.pagination # None /\ site.pagination[1].limit = Some(0)) =>
       /\ Returned => fetches > 0
       /\ (site.pagination[1].next # None /\ fetches > 0 /\ offeredNext /\ pc = "walk")
            => pageUrl # None
       /\ (site.pagination[1].next # None /\ Returned /\ failedAt = None) => ~offeredNext
  /\ (InWalk /\ site.pagination # None /\ site.pagination[1].next = None) =>
       /\ fetches <= 1
       /\ Returned => fetches = 1
  /\ thrown = Some("TypeError") => site.pagination = None

\* A walk with limit 0 returned after following a next link.
C10_Witness ==
  /\ Returned
  /\ site.pagination # None
  /\ site.pagination[1].limit = Some(0)
  /\ fetches > 1
  /\ failedAt = None


\* The keyword groups in the order the claim gives them.
Groups ==
  <<[label |-> Property, keywords |-> {KwProperty, KwEstate}],
    [label |-> Antiques, keywords |-> {KwAntique, KwCollectible}],
    [label |-> Jewellery, keywords |-> {KwJewel, KwWatch}],
    [label |-> Motors, keywords |-> {KwCar, KwVehicle}],
    [label |-> Agriculture, keywords |-> {KwFarm, KwTractor}],
    [label |-> Art, keywords |-> {KwArt, KwPainting}]>>

\* The groups with a keyword in t, whatever the case of the letters of t.
MatchingGroups(t) ==
  LET low == ToLowerCase(t)
  IN  {g \in 1..Len(Groups) : \E w \in Groups[g].keywords : Includes(low, w)}

\* The label of the first group with a keyword in t, General without one.
FirstGroupLabel(t) ==
  LET m == MatchingGroups(t)
  IN  IF m = {} THEN General ELSE Groups[CHOOSE g \in m : \A h \in m : g <= h].label

\* title, location and base URL of the element, one after the other.
InferenceText ==
  Trim(elem[1].title) \o <<" ">> \o Trim(elem[1].location) \o <<" ">> \o site.url

AntiqueCarAuction ==
  <<"A", "n", "t", "i", "q", "u", "e", " ", "C", "a", "r", " ",
    "A", "u", "c", "t", "i", "o", "n">>

\* C6, as amended: when the text of the category element is empty once the
\* white space around it is trimmed, the category is the label of the first
\* keyword group, in the order Property, Antiques, Jewellery, Motors,
\* Agriculture, Art, with a keyword in title, location or base URL, and
\* General without one; "Antique Car Auction" gives Antiques.  When the
\* trimmed text is not empty, the category is the trimmed text.
C6_CategoryResolution ==
  extracted # None =>
    LET found == Trim(elem[1].category)
        category == extracted[1][4]
    IN  /\ found = <<>> => category = FirstGroupLabel(InferenceText)
        /\ found # <<>> => category = found
        /\ (found = <<>> /\ Trim(elem[1].title) = AntiqueCarAuction) => category = Antiques

\* "Antique Car Auction" beside a category element of white space only.
C6_Witness ==
  /\ extracted # None
  /\ elem[1].title = AntiqueCarAuction
  /\ elem[1].category = <<" ", "\n">>
  /\ extracted[1][4] = Antiques

\* C6, as stated: the category is inferred when the text of the category
\* element is empty, and is that text, unchanged, when it is not.
C6_Original ==
  extracted # None =>
    LET found == elem[1].category
        category == extracted[1][4]
    IN  /\ found = <<>> => category = FirstGroupLabel(InferenceText)
        /\ found # <<>> => category = found

====
